---- MODULE Spec2Model ----
(***************************************************************************)
(* Model of generateIco (src/services/converter.ts): one build of an ICO   *)
(* container from a source image and a list of edge lengths.  The output   *)
(* buffer is modelled byte by byte, as the DataView / Uint8Array writes of *)
(* the code produce it.                                                    *)
(***************************************************************************)
EXTENDS Integers, Sequences, FiniteSets, TLC

\* ------------------------------------------------------------------ bounds
\* Longest size list handed to generateIco.
MaxSizes == 3
\* Longest encoded payload (in bytes) the PNG encoder returns in the model.
MaxPayloadLen == 2

\* Edge lengths a caller may request: below, at and above the 256 boundary.
SizeDomain == {32, 64, 255, 256, 300}

\* ------------------------------------------------------- program constants
headerSize == 6
dirEntrySize == 16

IcoMime == "image/x-icon"
MsgLoad == "Failed to load image"
MsgPng == "Failed to generate PNG"

\* ---------------------------------------------------------------- helpers
RECURSIVE SeqsUpTo(_, _)
SeqsUpTo(S, n) ==
    IF n = 0 THEN {<<>>}
    ELSE LET shorter == SeqsUpTo(S, n - 1)
         IN  shorter \cup {Append(s, x) : s \in {t \in shorter : Len(t) = n - 1}, x \in S}

\* The size lists a caller can pass (the empty list and duplicates included).
SizeLists == SeqsUpTo(SizeDomain, MaxSizes)

\* The byte sequences canvas.toBlob can hand to its callback for a canvas of
\* the given edge length: the source image is fixed during a build, so the
\* bytes depend on the edge length; their number is left open.
Payloads(size) ==
    {[j \in 1..len |-> (size + j) % 256] : len \in 1..MaxPayloadLen}

\* new ArrayBuffer(n): n zero bytes.
ArrayBuffer(n) == [k \in 1..n |-> 0]

\* DataView writes; byte offset off is index off + 1 of the sequence.
setUint8(buf, off, v) == [buf EXCEPT ![off + 1] = v % 256]

\* Mutant: the littleEndian flag left out, so the high byte comes first.
setUint16BigEndian(buf, off, v) ==
    [buf EXCEPT ![off + 1] = (v \div 256) % 256,
                ![off + 2] = v % 256]

setUint16(buf, off, v) ==
    [buf EXCEPT ![off + 1] = v % 256,
                ![off + 2] = (v \div 256) % 256]

setUint32(buf, off, v) ==
    [buf EXCEPT ![off + 1] = v % 256,
                ![off + 2] = (v \div 256) % 256,
                ![off + 3] = (v \div 65536) % 256,
                ![off + 4] = (v \div 16777216) % 256]

\* Uint8Array.prototype.set(data, off): the bytes of data copied one by one
\* to off, off + 1, ...
RECURSIVE Uint8Set(_, _, _)
Uint8Set(buf, data, off) ==
    IF data = <<>> THEN buf
    ELSE Uint8Set([buf EXCEPT ![off + 1] = Head(data)], Tail(data), off + 1)

\* ------------------------------------------------------ container builder
\* Mutant: the >= 256 test left out.
WidthByteUnclamped(size) == size

WidthByte(size) == IF size >= 256 THEN 0 ELSE size
HeightByte(size) == IF size >= 256 THEN 0 ELSE size

RECURSIVE SumDataLength(_, _)
SumDataLength(blobs, acc) ==
    IF blobs = <<>> THEN acc
    ELSE SumDataLength(Tail(blobs), acc + Len(Head(blobs).data))

\* Mutant: the directory left out of the total.
TotalDataSizeNoDirectory(blobs) == SumDataLength(blobs, headerSize)

TotalDataSize(blobs) ==
    SumDataLength(blobs, headerSize + (dirEntrySize * Len(blobs)))

\* Mutant: the count field never written.
WriteHeaderNoCount(buf, numImages) ==
    setUint16(setUint16(buf, 0, 0), 2, 1)

WriteHeader(buf, numImages) ==
    setUint16(setUint16(setUint16(buf, 0, 0), 2, 1), 4, numImages)

WriteDirEntry(buf, entryOffset, png, dataOffset) ==
    LET b1 == setUint8(buf, entryOffset, WidthByte(png.size))
        b2 == setUint8(b1, entryOffset + 1, HeightByte(png.size))
        b3 == setUint8(b2, entryOffset + 2, 0)
        b4 == setUint8(b3, entryOffset + 3, 0)
        b5 == setUint16(b4, entryOffset + 4, 1)
        b6 == setUint16(b5, entryOffset + 6, 32)
        b7 == setUint32(b6, entryOffset + 8, Len(png.data))
    IN  setUint32(b7, entryOffset + 12, dataOffset)

\* Mutant: the payload copied one byte too far.
CopyPngDataShifted(buf, png, dataOffset) == Uint8Set(buf, png.data, dataOffset + 1)

CopyPngData(buf, png, dataOffset) == Uint8Set(buf, png.data, dataOffset)

\* Mutant: dataOffset never advanced.
NextDataOffsetStuck(dataOffset, png) == dataOffset

NextDataOffset(dataOffset, png) == dataOffset + Len(png.data)

\* The second loop of the builder: entry i (0-based) and its payload.
RECURSIVE WriteImages(_, _, _, _)
WriteImages(buf, blobs, i, dataOffset) ==
    IF ~(i < Len(blobs)) THEN buf
    ELSE LET png == blobs[i + 1]
             entryOffset == headerSize + (i * dirEntrySize)
             withEntry == WriteDirEntry(buf, entryOffset, png, dataOffset)
             withData == CopyPngData(withEntry, png, dataOffset)
         IN  WriteImages(withData, blobs, i + 1, NextDataOffset(dataOffset, png))

BuildIco(blobs) ==
    LET numImages == Len(blobs)
        icoBuffer == ArrayBuffer(TotalDataSize(blobs))
    IN  WriteImages(WriteHeader(icoBuffer, numImages), blobs, 0,
                    headerSize + (dirEntrySize * numImages))

MakeBlob(bytes) == [type |-> IcoMime, bytes |-> bytes]
NoBlob == [type |-> "", bytes |-> <<>>]

\* Mutant: records prepended instead of appended.
PushPngFront(blobs, size, data) == <<[size |-> size, data |-> data]>> \o blobs

PushPng(blobs, size, data) == Append(blobs, [size |-> size, data |-> data])

\* ------------------------------------------------------------------ state
VARIABLES
    sizes,      \* the size list passed to generateIco
    pc,         \* "loading", "encoding", "reading", "resolved", "rejected"
    idx,        \* 1-based position in sizes of the iteration in progress
    canvas,     \* edge length of the canvas being encoded, 0 when none
    pngBlob,    \* bytes of the blob whose arrayBuffer() is awaited
    pngBlobs,   \* the accumulated {size, data} records
    result,     \* the blob the promise resolved with, NoBlob when none
    error,      \* the message the promise rejected with, "" when none
    revoked,    \* objectUrl has been revoked
    rendered,   \* history: edge lengths drawn to a canvas, in order
    encoded,    \* history: {size, data} the encoder returned, in order
    failedAt,   \* history: position whose encode yielded no data, 0 when none
    imgEvent,   \* history: the image event that fired: "none", "load", "error"
    settleCalls \* history: number of calls of resolve / reject

icoVars == <<sizes, pc, idx, canvas, pngBlob, pngBlobs, result, error, revoked,
             rendered, encoded, failedAt, imgEvent, settleCalls>>

\* State of one stitchImages / createGridCollage call.
VARIABLES
    stFiles,       \* the input files: the width and height each decodes to
    stOptions,     \* mode ("vertical", "horizontal", "grid"), gap, columns
    stLoad,        \* per file: "pending", "loaded" or "failed"
    images,        \* the images array, NoImage where nothing is stored yet
    loadedCount,   \* loadedCount
    stPc,          \* "loading", "encoding" (toBlob outstanding), "done"
    stPromise,     \* "pending", "resolved", "rejected"
    stError,       \* what the promise rejected with, NoError when not rejected
    composites,    \* history: the canvases composited by onAllLoaded
    allLoadedRuns, \* history: number of runs of onAllLoaded
    loadOrder      \* history: file positions in the order their events fired

stitchVars == <<stFiles, stOptions, stLoad, images, loadedCount, stPc, stPromise,
                stError, composites, allLoadedRuns, loadOrder>>

\* State of the App component.
VARIABLES
    activeTool,      \* toolType of the active tool
    files,           \* the file list: id, status, converted (tool and angle
                     \* the output was made with), errorMessage
    isProcessingAll, \* isProcessingAll
    icoSizes,        \* the selected ICO sizes
    run,             \* the convert-all run in progress and what it closed over
    nextId,          \* number of file ids handed out
    lastIcoCall,     \* history: the latest generateIco call of the component
    lastEvent,       \* history: how the last awaited operation settled, and under which tool
    runMarked,       \* history: ids the latest run set to PROCESSING
    rotateAngle      \* rotateAngle

appVars == <<activeTool, files, isProcessingAll, icoSizes, run, nextId, lastIcoCall,
             lastEvent, runMarked, rotateAngle>>

\* State of one cropImage call.
VARIABLES
    cropArgs,        \* the arguments x, y, width, height
    cropImg,         \* img.width, img.height of the decoded file
    cropPc,          \* "idle", "loading", "encoding", "resolved", "rejected"
    cropRect,        \* source rectangle of the drawImage call
    cropCanvas,      \* canvas.width, canvas.height
    cropError        \* message the promise rejected with

cropVars == <<cropArgs, cropImg, cropPc, cropRect, cropCanvas, cropError>>

vars == <<icoVars, stitchVars, appVars, cropVars>>

\* ---------------------------------------------- components not in use
NoImage == [file |-> 0, w |-> 0, h |-> 0]
NoError == [msg |-> "", file |-> 0]
NoRun == [active |-> FALSE, tool |-> "", files |-> <<>>, sizes |-> <<>>, angle |-> 0,
          queue |-> <<>>, cur |-> 0, pc |-> "idle"]
NoCall == [called |-> FALSE, file |-> 0, sizes |-> <<>>, selectedLength |-> 0]

NoEvent == [kind |-> "none", id |-> 0, msg |-> "", tool |-> ""]

NoRect == [drawn |-> FALSE, sx |-> 0, sy |-> 0, sw |-> 0, sh |-> 0]
NoCanvas == [width |-> 0, height |-> 0]

\* No cropImage call has been made.
CropIdle ==
    /\ cropArgs = [x |-> 0, y |-> 0, width |-> 0, height |-> 0]
    /\ cropImg = [width |-> 0, height |-> 0]
    /\ cropPc = "idle"
    /\ cropRect = NoRect
    /\ cropCanvas = NoCanvas
    /\ cropError = ""

\* No generateIco build has been started.
IcoIdle ==
    /\ sizes = <<>>
    /\ pc = "idle"
    /\ idx = 0
    /\ canvas = 0
    /\ pngBlob = <<>>
    /\ pngBlobs = <<>>
    /\ result = NoBlob
    /\ error = ""
    /\ revoked = FALSE
    /\ rendered = <<>>
    /\ encoded = <<>>
    /\ failedAt = 0
    /\ imgEvent = "none"
    /\ settleCalls = 0

\* No stitchImages / createGridCollage call has been made.
StitchIdle ==
    /\ stFiles = <<>>
    /\ stOptions = [mode |-> "vertical", gap |-> 0, columns |-> 1]
    /\ stLoad = <<>>
    /\ images = <<>>
    /\ loadedCount = 0
    /\ stPc = "idle"
    /\ stPromise = "pending"
    /\ stError = NoError
    /\ composites = <<>>
    /\ allLoadedRuns = 0
    /\ loadOrder = <<>>

\* The App component as mounted: the first tool, no files, the default sizes.
AppMounted ==
    /\ activeTool = "convert"
    /\ files = <<>>
    /\ isProcessingAll = FALSE
    /\ icoSizes = <<32, 64, 128, 256>>
    /\ run = NoRun
    /\ nextId = 0
    /\ lastIcoCall = NoCall
    /\ lastEvent = NoEvent
    /\ runMarked = {}
    /\ rotateAngle = 0

Init ==
    /\ StitchIdle
    /\ AppMounted
    /\ CropIdle
    /\ sizes \in SizeLists
    /\ pc = "loading"
    /\ idx = 0
    /\ canvas = 0
    /\ pngBlob = <<>>
    /\ pngBlobs = <<>>
    /\ result = NoBlob
    /\ error = ""
    /\ revoked = FALSE
    /\ rendered = <<>>
    /\ encoded = <<>>
    /\ failedAt = 0
    /\ imgEvent = "none"
    /\ settleCalls = 0

\* resolve(new Blob([icoBuffer], {type})) after the loop has run out.
Resolve(blobs) ==
    /\ pc' = "resolved"
    /\ result' = MakeBlob(BuildIco(blobs))
    /\ revoked' = TRUE
    /\ settleCalls' = settleCalls + 1
    /\ canvas' = 0
    /\ UNCHANGED <<error, rendered, idx>>

\* reject(error) of the catch block and of img.onerror.
Reject(msg) ==
    /\ pc' = "rejected"
    /\ error' = msg
    /\ revoked' = TRUE
    /\ settleCalls' = settleCalls + 1
    /\ UNCHANGED result

\* Mutant: every remaining size rendered and handed to the encoder at once.
LoopHeadEager(blobs, next) ==
    IF next <= Len(sizes)
    THEN /\ idx' = next
         /\ canvas' = sizes[next]
         /\ rendered' = rendered \o SubSeq(sizes, next, Len(sizes))
         /\ pc' = "encoding"
         /\ UNCHANGED <<result, error, revoked, settleCalls>>
    ELSE Resolve(blobs)

\* Mutant: the loop runs out without resolve being called.
LoopHeadNoResolve(blobs, next) ==
    IF next <= Len(sizes)
    THEN /\ idx' = next
         /\ canvas' = sizes[next]
         /\ rendered' = Append(rendered, sizes[next])
         /\ pc' = "encoding"
         /\ UNCHANGED <<result, error, revoked, settleCalls>>
    ELSE /\ pc' = "built"
         /\ canvas' = 0
         /\ UNCHANGED <<result, error, revoked, settleCalls, rendered, idx>>

\* One pass of the loop head: render the next size and call toBlob, or leave
\* the loop and build the container.
LoopHead(blobs, next) ==
    IF next <= Len(sizes)
    THEN /\ idx' = next
         /\ canvas' = sizes[next]
         /\ rendered' = Append(rendered, sizes[next])
         /\ pc' = "encoding"
         /\ UNCHANGED <<result, error, revoked, settleCalls>>
    ELSE Resolve(blobs)

\* img.onload
ImgLoad ==
    /\ pc = "loading"
    /\ imgEvent' = "load"
    /\ pngBlobs' = <<>>
    /\ LoopHead(<<>>, 1)
    /\ UNCHANGED <<sizes, pngBlob, encoded, failedAt>>
    /\ UNCHANGED <<stitchVars, appVars, cropVars>>

\* Mutant: the error event handled like the load event.
ImgErrorAsLoad ==
    /\ pc = "loading"
    /\ imgEvent' = "error"
    /\ pngBlobs' = <<>>
    /\ LoopHead(<<>>, 1)
    /\ UNCHANGED <<sizes, pngBlob, encoded, failedAt>>
    /\ UNCHANGED <<stitchVars, appVars, cropVars>>

\* img.onerror
ImgError ==
    /\ pc = "loading"
    /\ imgEvent' = "error"
    /\ Reject(MsgLoad)
    /\ UNCHANGED <<sizes, idx, canvas, pngBlob, pngBlobs, rendered, encoded, failedAt>>
    /\ UNCHANGED <<stitchVars, appVars, cropVars>>

\* The toBlob callback with a blob: res(blob), then pngBlob.arrayBuffer().
ToBlobData ==
    /\ pc = "encoding"
    /\ \E data \in Payloads(canvas) :
          /\ pngBlob' = data
          /\ encoded' = Append(encoded, [size |-> canvas, data |-> data])
    /\ pc' = "reading"
    /\ UNCHANGED <<sizes, idx, canvas, pngBlobs, result, error, revoked, rendered,
                   failedAt, imgEvent, settleCalls>>
    /\ UNCHANGED <<stitchVars, appVars, cropVars>>

\* Mutant: a size whose encode yields no data is skipped.
ToBlobNullSkipped ==
    /\ pc = "encoding"
    /\ failedAt' = idx
    /\ LoopHead(pngBlobs, idx + 1)
    /\ UNCHANGED <<sizes, pngBlob, pngBlobs, encoded, imgEvent>>
    /\ UNCHANGED <<stitchVars, appVars, cropVars>>

\* The toBlob callback with null: rej(...), caught by the catch block.
ToBlobNull ==
    /\ pc = "encoding"
    /\ failedAt' = idx
    /\ Reject(MsgPng)
    /\ UNCHANGED <<sizes, idx, canvas, pngBlob, pngBlobs, rendered, encoded, imgEvent>>
    /\ UNCHANGED <<stitchVars, appVars, cropVars>>

\* arrayBuffer() settles: push the record and go round the loop.
ArrayBufferDone ==
    /\ pc = "reading"
    /\ LET pushed == PushPng(pngBlobs, sizes[idx], pngBlob)
       IN  /\ pngBlobs' = pushed
           /\ LoopHead(pushed, idx + 1)
    /\ pngBlob' = <<>>
    /\ UNCHANGED <<sizes, encoded, failedAt, imgEvent>>
    /\ UNCHANGED <<stitchVars, appVars, cropVars>>

Next ==
    \/ ImgLoad
    \/ ImgError
    \/ ToBlobData
    \/ ToBlobNull
    \/ ArrayBufferDone

Spec == Init /\ [][Next]_vars

\* The build when every event and callback it waits for does fire.
SpecLive == Spec /\ WF_vars(Next)

\* ================================================================
\* stitchImages and createGridCollage (src/unnamed/part_000): the join on
\* the image load callbacks and the compositing that follows it.

\* Most files handed to one call.
MaxStitchFiles == 3
\* Largest gap option.
MaxGap == 2

\* Width and height the input files decode to.
ImageDims == {[w |-> 1, h |-> 2], [w |-> 2, h |-> 1], [w |-> 3, h |-> 3]}

StitchFileLists == SeqsUpTo(ImageDims, MaxStitchFiles)

StitchOptionSets ==
    {[mode |-> m, gap |-> g, columns |-> 1] : m \in {"vertical", "horizontal"}, g \in 0..MaxGap}
    \cup {[mode |-> "grid", gap |-> g, columns |-> 2] : g \in 0..MaxGap}

MsgNoFiles == "No files provided"
MsgStLoad == "Failed to load image: "
MsgCtx == "Could not get canvas context"
MsgStitch == "Image stitching failed"

Max(a, b) == IF a >= b THEN a ELSE b

\* images.forEach skips the holes of the array.
Present(imgs) == SelectSeq(imgs, LAMBDA im : im # NoImage)

\* The two forEach loops that size the canvas of stitchImages.
RECURSIVE StitchTotals(_, _, _)
StitchTotals(imgs, mode, acc) ==
    IF imgs = <<>> THEN acc
    ELSE LET img == Head(imgs)
         IN  IF mode = "vertical"
             THEN StitchTotals(Tail(imgs), mode,
                               [w |-> Max(acc.w, img.w), h |-> acc.h + img.h])
             ELSE StitchTotals(Tail(imgs), mode,
                               [w |-> acc.w + img.w, h |-> Max(acc.h, img.h)])

\* Mutant: one gap counted per image instead of one per joint.
StitchCanvasGapPerImage(imgs, options) ==
    LET t == StitchTotals(Present(imgs), options.mode, [w |-> 0, h |-> 0])
    IN  IF options.mode = "vertical"
        THEN [w |-> t.w, h |-> t.h + options.gap * Len(imgs)]
        ELSE [w |-> t.w + options.gap * Len(imgs), h |-> t.h]

StitchCanvas(imgs, options) ==
    LET t == StitchTotals(Present(imgs), options.mode, [w |-> 0, h |-> 0])
    IN  IF options.mode = "vertical"
        THEN [w |-> t.w, h |-> t.h + options.gap * (Len(imgs) - 1)]
        ELSE [w |-> t.w + options.gap * (Len(imgs) - 1), h |-> t.h]

\* The drawing loop of stitchImages.  Coordinates are kept doubled (x2 = 2x,
\* y2 = 2y) because the centring (total - size) / 2 need not be an integer.
RECURSIVE StitchDraw(_, _, _, _, _)
StitchDraw(imgs, options, total, currentPos, draws) ==
    IF imgs = <<>> THEN draws
    ELSE LET img == Head(imgs)
         IN  IF options.mode = "vertical"
             THEN StitchDraw(Tail(imgs), options, total,
                             currentPos + img.h + options.gap,
                             Append(draws, [file |-> img.file,
                                            x2 |-> total.w - img.w,
                                            y2 |-> 2 * currentPos]))
             ELSE StitchDraw(Tail(imgs), options, total,
                             currentPos + img.w + options.gap,
                             Append(draws, [file |-> img.file,
                                            x2 |-> 2 * currentPos,
                                            y2 |-> total.h - img.h]))

\* The cell size of createGridCollage.
RECURSIVE MaxCell(_, _)
MaxCell(imgs, acc) ==
    IF imgs = <<>> THEN acc
    ELSE MaxCell(Tail(imgs), [w |-> Max(acc.w, Head(imgs).w), h |-> Max(acc.h, Head(imgs).h)])

\* The drawing loop of createGridCollage: the origin of each image's cell
\* (doubled); the scaled placement inside the cell is left out.
RECURSIVE GridDraw(_, _, _, _, _)
GridDraw(imgs, options, cell, index, draws) ==
    IF imgs = <<>> THEN draws
    ELSE LET col == index % options.columns
             row == index \div options.columns
             cellX == options.gap + col * (cell.w + options.gap)
             cellY == options.gap + row * (cell.h + options.gap)
         IN  GridDraw(Tail(imgs), options, cell, index + 1,
                      Append(draws, [file |-> Head(imgs).file,
                                     x2 |-> 2 * cellX, y2 |-> 2 * cellY]))

\* onAllLoaded up to the toBlob call: the canvas size and the draw calls.
Composite(imgs, options) ==
    IF options.mode = "grid"
    THEN LET cols == options.columns
             rows == (Len(imgs) + cols - 1) \div cols
             cell == MaxCell(Present(imgs), [w |-> 0, h |-> 0])
         IN  [mode |-> "grid",
              width |-> cols * cell.w + (cols + 1) * options.gap,
              height |-> rows * cell.h + (rows + 1) * options.gap,
              draws |-> GridDraw(Present(imgs), options, cell, 0, <<>>)]
    ELSE LET total == StitchCanvas(imgs, options)
         IN  [mode |-> options.mode,
              width |-> total.w,
              height |-> total.h,
              draws |-> StitchDraw(Present(imgs), options, total, 0, <<>>)]

\* Mutant: images.push(img), so the array is in completion order.
StoreImagePush(imgs, index, img) ==
    LET holes == {k \in 1..Len(imgs) : imgs[k] = NoImage}
        first == CHOOSE k \in holes : \A j \in holes : k <= j
    IN  IF holes = {} THEN imgs ELSE [imgs EXCEPT ![first] = img]

\* images[index] = img
StoreImage(imgs, index, img) == [imgs EXCEPT ![index] = img]

\* A promise settles once: later resolve / reject calls change nothing.
StSettle(state, err) ==
    IF stPromise = "pending"
    THEN /\ stPromise' = state
         /\ stError' = err
    ELSE UNCHANGED <<stPromise, stError>>

\* The state after the Promise executor has run: every file's image is
\* loading, or the promise is rejected at once for an empty list.
StitchInit ==
    /\ stFiles \in StitchFileLists
    /\ stOptions \in StitchOptionSets
    /\ stLoad = [k \in 1..Len(stFiles) |-> "pending"]
    /\ images = [k \in 1..Len(stFiles) |-> NoImage]
    /\ loadedCount = 0
    /\ stPc = IF stFiles = <<>> THEN "done" ELSE "loading"
    /\ stPromise = IF stFiles = <<>> THEN "rejected" ELSE "pending"
    /\ stError = IF stFiles = <<>> THEN [msg |-> MsgNoFiles, file |-> 0] ELSE NoError
    /\ composites = <<>>
    /\ allLoadedRuns = 0
    /\ loadOrder = <<>>

\* onAllLoaded: composite and call toBlob, or reject when no 2-D context.
OnAllLoaded(imgs) ==
    /\ allLoadedRuns' = allLoadedRuns + 1
    /\ \E ctxOk \in BOOLEAN :
          IF ctxOk
          THEN /\ composites' = Append(composites, Composite(imgs, stOptions))
               /\ stPc' = "encoding"
               /\ UNCHANGED <<stPromise, stError>>
          ELSE /\ StSettle("rejected", [msg |-> MsgCtx, file |-> 0])
               /\ stPc' = "done"
               /\ UNCHANGED composites

\* Mutant: a failed load is counted like a finished one and skipped.
StImgErrorSkipped(k) ==
    /\ stPc = "loading"
    /\ stLoad[k] = "pending"
    /\ stLoad' = [stLoad EXCEPT ![k] = "failed"]
    /\ loadOrder' = Append(loadOrder, k)
    /\ loadedCount' = loadedCount + 1
    /\ UNCHANGED images
    /\ IF loadedCount' = Len(stFiles)
       THEN OnAllLoaded(images)
       ELSE UNCHANGED <<stPc, stPromise, stError, composites, allLoadedRuns>>
    /\ UNCHANGED <<stFiles, stOptions>>
    /\ UNCHANGED <<icoVars, appVars, cropVars>>

\* img.onload of file k
StImgLoad(k) ==
    /\ stPc = "loading"
    /\ stLoad[k] = "pending"
    /\ stLoad' = [stLoad EXCEPT ![k] = "loaded"]
    /\ loadOrder' = Append(loadOrder, k)
    /\ LET stored == StoreImage(images, k, [file |-> k, w |-> stFiles[k].w, h |-> stFiles[k].h])
       IN  /\ images' = stored
           /\ loadedCount' = loadedCount + 1
           /\ IF loadedCount + 1 = Len(stFiles)
              THEN OnAllLoaded(stored)
              ELSE UNCHANGED <<stPc, stPromise, stError, composites, allLoadedRuns>>
    /\ UNCHANGED <<stFiles, stOptions>>
    /\ UNCHANGED <<icoVars, appVars, cropVars>>

\* img.onerror of file k
StImgError(k) ==
    /\ stPc = "loading"
    /\ stLoad[k] = "pending"
    /\ stLoad' = [stLoad EXCEPT ![k] = "failed"]
    /\ loadOrder' = Append(loadOrder, k)
    /\ StSettle("rejected", [msg |-> MsgStLoad, file |-> k])
    /\ UNCHANGED <<stFiles, stOptions, images, loadedCount, stPc, composites, allLoadedRuns>>
    /\ UNCHANGED <<icoVars, appVars, cropVars>>

\* The toBlob callback with a blob.
StToBlobData ==
    /\ stPc = "encoding"
    /\ stPc' = "done"
    /\ StSettle("resolved", NoError)
    /\ UNCHANGED <<stFiles, stOptions, stLoad, images, loadedCount, composites,
                   allLoadedRuns, loadOrder>>
    /\ UNCHANGED <<icoVars, appVars, cropVars>>

\* The toBlob callback with null.
StToBlobNull ==
    /\ stPc = "encoding"
    /\ stPc' = "done"
    /\ StSettle("rejected", [msg |-> MsgStitch, file |-> 0])
    /\ UNCHANGED <<stFiles, stOptions, stLoad, images, loadedCount, composites,
                   allLoadedRuns, loadOrder>>
    /\ UNCHANGED <<icoVars, appVars, cropVars>>

InitStitch ==
    /\ IcoIdle
    /\ AppMounted
    /\ CropIdle
    /\ StitchInit

NextStitch ==
    \/ \E k \in 1..Len(stFiles) : StImgLoad(k)
    \/ \E k \in 1..Len(stFiles) : StImgError(k)
    \/ StToBlobData
    \/ StToBlobNull

SpecStitch == InitStitch /\ [][NextStitch]_vars

\* ================================================================
\* The App component (src/unnamed/part_001, from line 717) and IcoOptions
\* (src/unnamed/part_002): the file list, the size selection and the
\* convert-all run.  A run works on what handleConvertAll closed over when
\* the button was clicked (files, activeTool, icoSizes); its setFiles calls
\* are functional updates of the list as it is when they are applied.

\* Most files added to the list over a session.
MaxAdds == 2

ICO_SIZES == <<24, 32, 48, 64, 128, 256, 512>>

\* toolTypes explored with the ICO panel: the initial per-file tool, the ICO
\* tool, the stitch tool.
AppTools == {"convert", "ico", "long-image"}

\* '请至少选择一个尺寸' (TLA+ strings are ASCII)
MsgSelectSize == "qing zhishao xuanze yige chicun"

\* Messages an awaited per-file operation may reject with.
OpErrors == {MsgLoad, MsgPng}
\* Messages stitchImages may reject with.
StitchErrors == {MsgStLoad, MsgStitch}

SeqToSet(q) == {q[k] : k \in 1..Len(q)}
Includes(q, x) == x \in SeqToSet(q)
Filter(q, x) == SelectSeq(q, LAMBDA y : y # x)

\* Array.prototype.sort((a, b) => a - b), as an insertion sort.
RECURSIVE InsertAsc(_, _)
InsertAsc(q, x) ==
    IF q = <<>> THEN <<x>>
    ELSE IF x - Head(q) < 0 THEN <<x>> \o q
    ELSE <<Head(q)>> \o InsertAsc(Tail(q), x)

RECURSIVE SortAsc(_)
SortAsc(q) == IF q = <<>> THEN <<>> ELSE InsertAsc(SortAsc(Tail(q)), Head(q))

\* toggleSize without the sort.
toggleSizeUnsorted(selectedSizes, size) ==
    IF Includes(selectedSizes, size)
    THEN Filter(selectedSizes, size)
    ELSE Append(selectedSizes, size)

\* IcoOptions.toggleSize
toggleSize(selectedSizes, size) ==
    IF Includes(selectedSizes, size)
    THEN Filter(selectedSizes, size)
    ELSE SortAsc(Append(selectedSizes, size))

selectAll == ICO_SIZES
clearAll == <<>>

\* No convertedBlob / convertedUrl.
NoOutput == [tool |-> "none", angle |-> 0]

\* The blob an operation of the tool resolves with; rotateImage makes it from
\* the angle it was called with.
Output(tool, angle) == [tool |-> tool, angle |-> IF tool = "rotate" THEN angle ELSE 0]

\* Values of the rotate angle.
Angles == {0, 90}

NewFile(id) == [id |-> id, status |-> "IDLE", converted |-> NoOutput, errorMessage |-> ""]

FileIds(fs) == {fs[k].id : k \in 1..Len(fs)}

\* The functional updates of convertSingleFile.
MarkProcessing(fs, id) ==
    [k \in 1..Len(fs) |->
        IF fs[k].id = id THEN [fs[k] EXCEPT !.status = "PROCESSING"] ELSE fs[k]]

\* A completion that creates the entry when the list has none for the id.
MarkCompletedUpsert(fs, id, blob) ==
    IF \E k \in 1..Len(fs) : fs[k].id = id
    THEN [k \in 1..Len(fs) |->
             IF fs[k].id = id
             THEN [fs[k] EXCEPT !.status = "COMPLETED", !.converted = blob]
             ELSE fs[k]]
    ELSE Append(fs, [id |-> id, status |-> "COMPLETED", converted |-> blob,
                     errorMessage |-> ""])

MarkCompleted(fs, id, blob) ==
    [k \in 1..Len(fs) |->
        IF fs[k].id = id
        THEN [fs[k] EXCEPT !.status = "COMPLETED", !.converted = blob]
        ELSE fs[k]]

\* A catch block that marks every file of the list.
MarkErrorAll(fs, id, msg) ==
    [k \in 1..Len(fs) |-> [fs[k] EXCEPT !.status = "ERROR", !.errorMessage = msg]]

\* A catch block that swallows the error.
MarkErrorDropped(fs, id, msg) == fs

MarkError(fs, id, msg) ==
    [k \in 1..Len(fs) |->
        IF fs[k].id = id
        THEN [fs[k] EXCEPT !.status = "ERROR", !.errorMessage = msg]
        ELSE fs[k]]

\* A reset that puts every file back to IDLE.
ResetEvery(fs) == [k \in 1..Len(fs) |-> [fs[k] EXCEPT !.status = "IDLE"]]

\* handleRotateAngleChange / handleFlipHChange / handleFlipVChange: finished
\* files become IDLE again.
ResetCompleted(fs) ==
    [k \in 1..Len(fs) |->
        IF fs[k].status = "COMPLETED" THEN [fs[k] EXCEPT !.status = "IDLE"] ELSE fs[k]]

\* The functional updates of the long-image branch of handleConvertAll.
MarkAllProcessing(fs) == [k \in 1..Len(fs) |-> [fs[k] EXCEPT !.status = "PROCESSING"]]

\* A completion that hands the result to every file.
MarkAllCompletedEach(fs, blob) ==
    [k \in 1..Len(fs) |-> [fs[k] EXCEPT !.status = "COMPLETED", !.converted = blob]]

MarkAllCompleted(fs, blob) ==
    [k \in 1..Len(fs) |->
        [fs[k] EXCEPT !.status = "COMPLETED",
                      !.converted = IF k = 1 THEN blob ELSE NoOutput]]

MarkAllError(fs, msg) ==
    [k \in 1..Len(fs) |-> [fs[k] EXCEPT !.status = "ERROR", !.errorMessage = msg]]

\* The switch of convertSingleFile up to the awaited call: the ICO case
\* throws on an empty selection, every other case calls its operation.
StartOperation(tool, sizesArg) ==
    IF tool = "ico" /\ sizesArg = <<>>
    THEN [thrown |-> TRUE, msg |-> MsgSelectSize]
    ELSE [thrown |-> FALSE, msg |-> ""]

\* A button that is only disabled while a run is in progress.
ConvertAllDisabledWhileRunning(tool, selected, processing) == processing

\* disabled={...} of the convert-all button
ConvertAllDisabled(tool, selected, processing) ==
    processing \/ (tool = "ico" /\ selected = <<>>)

\* The for loop of handleConvertAll from its next file on: convertSingleFile
\* is called for the head of the queue; it marks the file PROCESSING, then
\* returns (file not in the closed-over list), fails at once (a throw before
\* the await) or awaits its operation.  After the last file the run ends.
RECURSIVE RunLoop(_, _, _, _, _)
RunLoop(fs, r, queue, calls, marked) ==
    IF queue = <<>>
    THEN [files |-> fs, run |-> NoRun, processing |-> FALSE, calls |-> calls,
          marked |-> marked]
    ELSE LET id == Head(queue)
             fs1 == MarkProcessing(fs, id)
             marked1 == marked \cup ({id} \cap FileIds(fs))
             op == StartOperation(r.tool, r.sizes)
         IN  IF ~Includes(r.files, id)
             THEN RunLoop(fs1, r, Tail(queue), calls, marked1)
             ELSE IF op.thrown
             THEN RunLoop(MarkError(fs1, id, op.msg), r, Tail(queue), calls, marked1)
             ELSE [files |-> fs1,
                   run |-> [r EXCEPT !.cur = id, !.queue = Tail(queue), !.pc = "awaitOp"],
                   processing |-> TRUE,
                   calls |-> IF r.tool = "ico"
                             THEN [called |-> TRUE, file |-> id, sizes |-> r.sizes,
                                   selectedLength |-> Len(icoSizes)]
                             ELSE calls,
                   marked |-> marked1]

ApplyLoop(st) ==
    /\ files' = st.files
    /\ run' = st.run
    /\ isProcessingAll' = st.processing
    /\ lastIcoCall' = st.calls
    /\ runMarked' = st.marked

\* Sidebar: another tool is selected; the effect on activeTool clears the list.
SelectTool(t) ==
    /\ t # activeTool
    /\ activeTool' = t
    /\ files' = <<>>
    /\ UNCHANGED <<isProcessingAll, icoSizes, run, nextId, lastIcoCall, lastEvent, runMarked>>
    /\ UNCHANGED <<icoVars, stitchVars, cropVars, rotateAngle>>

\* handleFilesSelected with one new file
AddFile ==
    /\ nextId < MaxAdds
    /\ nextId' = nextId + 1
    /\ files' = Append(files, NewFile(nextId + 1))
    /\ UNCHANGED <<activeTool, isProcessingAll, icoSizes, run, lastIcoCall, lastEvent, runMarked>>
    /\ UNCHANGED <<icoVars, stitchVars, cropVars, rotateAngle>>

\* handleRemoveFile
RemoveFile(id) ==
    /\ id \in FileIds(files)
    /\ files' = SelectSeq(files, LAMBDA f : f.id # id)
    /\ UNCHANGED <<activeTool, isProcessingAll, icoSizes, run, nextId, lastIcoCall, lastEvent,
                   runMarked>>
    /\ UNCHANGED <<icoVars, stitchVars, cropVars, rotateAngle>>

\* RotateOptions (shown for the rotate tool with a file listed): the angle is
\* changed.
OptionChange(angle) ==
    /\ activeTool = "rotate"
    /\ files # <<>>
    /\ angle # rotateAngle
    /\ rotateAngle' = angle
    /\ files' = IF \E k \in 1..Len(files) : files[k].status = "COMPLETED"
                THEN ResetCompleted(files)
                ELSE files
    /\ UNCHANGED <<activeTool, isProcessingAll, icoSizes, run, nextId, lastIcoCall, lastEvent,
                   runMarked>>
    /\ UNCHANGED <<icoVars, stitchVars, cropVars>>

\* handleCropChange / handleBrightnessChange / handleContrastChange: the same
\* reset for the crop and the brightness tool (the crop rectangle and the
\* brightness and contrast values are not part of the state).
ParamChange(tool) ==
    /\ activeTool = tool
    /\ files # <<>>
    /\ files' = IF \E k \in 1..Len(files) : files[k].status = "COMPLETED"
                THEN ResetCompleted(files)
                ELSE files
    /\ UNCHANGED <<activeTool, isProcessingAll, icoSizes, run, nextId, lastIcoCall, lastEvent,
                   runMarked>>
    /\ UNCHANGED <<icoVars, stitchVars, cropVars, rotateAngle>>

\* splice(fromIndex, 1) then splice(toIndex, 0, removed), indices from 1.
Splice(fs, fromIndex, toIndex) ==
    LET removed == fs[fromIndex]
        rest == [k \in 1..(Len(fs) - 1) |-> IF k < fromIndex THEN fs[k] ELSE fs[k + 1]]
    IN  [k \in 1..Len(fs) |->
            IF k < toIndex THEN rest[k]
            ELSE IF k = toIndex THEN removed
            ELSE rest[k - 1]]

\* LongImageOptions.onReorder
ReorderFiles(fromIndex, toIndex) ==
    /\ activeTool = "long-image"
    /\ fromIndex \in 1..Len(files)
    /\ toIndex \in 1..Len(files)
    /\ fromIndex # toIndex
    /\ files' = Splice(files, fromIndex, toIndex)
    /\ UNCHANGED <<activeTool, isProcessingAll, icoSizes, run, nextId, lastIcoCall, lastEvent,
                   runMarked>>
    /\ UNCHANGED <<icoVars, stitchVars, cropVars, rotateAngle>>

\* handleClearAll
ClearAllFiles ==
    /\ files # <<>>
    /\ files' = <<>>
    /\ UNCHANGED <<activeTool, isProcessingAll, icoSizes, run, nextId, lastIcoCall, lastEvent,
                   runMarked>>
    /\ UNCHANGED <<icoVars, stitchVars, cropVars, rotateAngle>>

\* IcoOptions: a size button
ToggleSize(size) ==
    /\ activeTool = "ico"
    /\ icoSizes' = toggleSize(icoSizes, size)
    /\ UNCHANGED <<activeTool, files, isProcessingAll, run, nextId, lastIcoCall, lastEvent,
                   runMarked>>
    /\ UNCHANGED <<icoVars, stitchVars, cropVars, rotateAngle>>

\* IcoOptions: select all
SelectAllSizes ==
    /\ activeTool = "ico"
    /\ icoSizes' = selectAll
    /\ UNCHANGED <<activeTool, files, isProcessingAll, run, nextId, lastIcoCall, lastEvent,
                   runMarked>>
    /\ UNCHANGED <<icoVars, stitchVars, cropVars, rotateAngle>>

\* IcoOptions: clear
ClearSizes ==
    /\ activeTool = "ico"
    /\ icoSizes' = clearAll
    /\ UNCHANGED <<activeTool, files, isProcessingAll, run, nextId, lastIcoCall, lastEvent,
                   runMarked>>
    /\ UNCHANGED <<icoVars, stitchVars, cropVars, rotateAngle>>

\* A run that takes every file of the list.
FilesToConvertAll(fs) == [k \in 1..Len(fs) |-> fs[k].id]

\* filesToConvert of handleConvertAll: the files that are IDLE, by id.
FilesToConvert(fs) ==
    LET idle == SelectSeq(fs, LAMBDA f : f.status = "IDLE")
    IN  [k \in 1..Len(idle) |-> idle[k].id]

\* handleConvertAll, from the click to its first await.
ConvertAllClick ==
    /\ files # <<>>
    /\ ~ConvertAllDisabled(activeTool, icoSizes, isProcessingAll)
    /\ LET filesToConvert == FilesToConvert(files)
           closure == [active |-> TRUE, tool |-> activeTool,
                       files |-> [k \in 1..Len(files) |-> files[k].id],
                       sizes |-> icoSizes, angle |-> rotateAngle,
                       queue |-> filesToConvert, cur |-> 0,
                       pc |-> "idle"]
       IN  /\ filesToConvert # <<>>
           /\ IF activeTool = "long-image"
              THEN /\ files' = MarkAllProcessing(files)
                   /\ run' = [closure EXCEPT !.pc = "awaitStitch", !.queue = <<>>]
                   /\ isProcessingAll' = TRUE
                   /\ runMarked' = FileIds(files)
                   /\ UNCHANGED lastIcoCall
              ELSE ApplyLoop(RunLoop(files, closure, filesToConvert, lastIcoCall, {}))
    /\ UNCHANGED <<activeTool, icoSizes, nextId, lastEvent>>
    /\ UNCHANGED <<icoVars, stitchVars, cropVars, rotateAngle>>

\* The awaited per-file operation resolves.
OpResolve ==
    /\ run.pc = "awaitOp"
    /\ lastEvent' = [kind |-> "resolved", id |-> run.cur, msg |-> "", tool |-> activeTool]
    /\ ApplyLoop(RunLoop(MarkCompleted(files, run.cur, Output(run.tool, run.angle)),
                         run, run.queue,
                         lastIcoCall, runMarked))
    /\ UNCHANGED <<activeTool, icoSizes, nextId>>
    /\ UNCHANGED <<icoVars, stitchVars, cropVars, rotateAngle>>

\* The awaited per-file operation rejects.
OpReject(msg) ==
    /\ run.pc = "awaitOp"
    /\ lastEvent' = [kind |-> "rejected", id |-> run.cur, msg |-> msg, tool |-> activeTool]
    /\ ApplyLoop(RunLoop(MarkError(files, run.cur, msg), run, run.queue,
                         lastIcoCall, runMarked))
    /\ UNCHANGED <<activeTool, icoSizes, nextId>>
    /\ UNCHANGED <<icoVars, stitchVars, cropVars, rotateAngle>>

\* stitchImages resolves.
StitchResolve ==
    /\ run.pc = "awaitStitch"
    /\ lastEvent' = [kind |-> "resolved", id |-> 0, msg |-> "", tool |-> activeTool]
    /\ files' = MarkAllCompleted(files, Output(run.tool, run.angle))
    /\ run' = NoRun
    /\ isProcessingAll' = FALSE
    /\ UNCHANGED <<activeTool, icoSizes, nextId, lastIcoCall, runMarked>>
    /\ UNCHANGED <<icoVars, stitchVars, cropVars, rotateAngle>>

\* stitchImages rejects.
StitchReject(msg) ==
    /\ run.pc = "awaitStitch"
    /\ lastEvent' = [kind |-> "rejected", id |-> 0, msg |-> msg, tool |-> activeTool]
    /\ files' = MarkAllError(files, msg)
    /\ run' = NoRun
    /\ isProcessingAll' = FALSE
    /\ UNCHANGED <<activeTool, icoSizes, nextId, lastIcoCall, runMarked>>
    /\ UNCHANGED <<icoVars, stitchVars, cropVars, rotateAngle>>

\* The size button clicked while runs are explored: the largest offered size.
AppToggles == {512}

InitApp ==
    /\ IcoIdle
    /\ StitchIdle
    /\ AppMounted
    /\ CropIdle

NextApp ==
    \/ \E t \in AppTools : SelectTool(t)
    \/ AddFile
    \/ \E id \in 1..MaxAdds : RemoveFile(id)
    \/ ClearAllFiles
    \/ \E fromIndex, toIndex \in 1..MaxAdds : ReorderFiles(fromIndex, toIndex)
    \/ \E size \in AppToggles : ToggleSize(size)
    \/ SelectAllSizes
    \/ ClearSizes
    \/ ConvertAllClick
    \/ OpResolve
    \/ \E msg \in OpErrors : OpReject(msg)
    \/ StitchResolve
    \/ \E msg \in StitchErrors : StitchReject(msg)

SpecApp == InitApp /\ [][NextApp]_vars

\* The tools whose option handlers reset finished files.
ResetTools == {"crop", "rotate", "brightness"}

\* toolTypes explored with the option handlers: the reset tools and the
\* stitch tool (the initial tool is left and not selected again).
OptionTools == ResetTools \cup {"long-image"}

\* The App with the crop, rotate, brightness and stitch tools.
NextOptions ==
    \/ \E t \in OptionTools : SelectTool(t)
    \/ AddFile
    \/ \E id \in 1..MaxAdds : RemoveFile(id)
    \/ ClearAllFiles
    \/ \E fromIndex, toIndex \in 1..MaxAdds : ReorderFiles(fromIndex, toIndex)
    \/ \E angle \in Angles : OptionChange(angle)
    \/ \E tool \in ResetTools \ {"rotate"} : ParamChange(tool)
    \/ ConvertAllClick
    \/ OpResolve
    \/ \E msg \in OpErrors : OpReject(msg)
    \/ StitchResolve
    \/ \E msg \in StitchErrors : StitchReject(msg)

SpecOptions == InitApp /\ [][NextOptions]_vars

\* The IcoOptions panel alone: every size button, select all and clear, with
\* the sidebar bringing the panel up.
NextIcoOptions ==
    \/ \E t \in AppTools : SelectTool(t)
    \/ \E size \in SeqToSet(ICO_SIZES) : ToggleSize(size)
    \/ SelectAllSizes
    \/ ClearSizes

SpecIcoOptions == InitApp /\ [][NextIcoOptions]_vars

\* ================================================================
\* cropImage (src/unnamed/part_000, lines 394-450): one call, from the
\* image event to the settled promise.

\* Largest image side and largest crop argument.
MaxCrop == 3

\* Crop arguments: left or above the image, empty, inside, beyond it.
CropRange == -2..MaxCrop
ImageSides == 1..MaxCrop

MsgInvalidCrop == "Invalid crop dimensions"
MsgCrop == "Crop failed"

Min(a, b) == IF a <= b THEN a ELSE b

\* A crop origin that is used as it is given.
safeXUnclamped(x) == x

safeX(x) == Max(0, x)
safeY(y) == Max(0, y)
safeWidth(width, imgWidth, sx) == Min(width, imgWidth - sx)
safeHeight(height, imgHeight, sy) == Min(height, imgHeight - sy)

CropInit ==
    /\ cropArgs \in [x : CropRange, y : CropRange, width : CropRange, height : CropRange]
    /\ cropImg \in [width : ImageSides, height : ImageSides]
    /\ cropPc = "loading"
    /\ cropRect = NoRect
    /\ cropCanvas = NoCanvas
    /\ cropError = ""

\* img.onload: clip, reject an empty crop, size the canvas, get the context,
\* draw, ask for the blob.
CropImgLoad ==
    /\ cropPc = "loading"
    /\ LET sx == safeX(cropArgs.x)
           sy == safeY(cropArgs.y)
           sw == safeWidth(cropArgs.width, cropImg.width, sx)
           sh == safeHeight(cropArgs.height, cropImg.height, sy)
       IN  IF sw <= 0 \/ sh <= 0
           THEN /\ cropPc' = "rejected"
                /\ cropError' = MsgInvalidCrop
                /\ UNCHANGED <<cropRect, cropCanvas>>
           ELSE \E ctxOk \in BOOLEAN :
                   /\ cropCanvas' = [width |-> sw, height |-> sh]
                   /\ IF ctxOk
                      THEN /\ cropRect' = [drawn |-> TRUE, sx |-> sx, sy |-> sy,
                                           sw |-> sw, sh |-> sh]
                           /\ cropPc' = "encoding"
                           /\ UNCHANGED cropError
                      ELSE /\ cropPc' = "rejected"
                           /\ cropError' = MsgCtx
                           /\ UNCHANGED cropRect
    /\ UNCHANGED <<cropArgs, cropImg>>
    /\ UNCHANGED <<icoVars, stitchVars, appVars>>

\* img.onerror
CropImgError ==
    /\ cropPc = "loading"
    /\ cropPc' = "rejected"
    /\ cropError' = MsgLoad
    /\ UNCHANGED <<cropArgs, cropImg, cropRect, cropCanvas>>
    /\ UNCHANGED <<icoVars, stitchVars, appVars>>

\* toBlob callback with a blob
CropToBlobData ==
    /\ cropPc = "encoding"
    /\ cropPc' = "resolved"
    /\ UNCHANGED <<cropArgs, cropImg, cropRect, cropCanvas, cropError>>
    /\ UNCHANGED <<icoVars, stitchVars, appVars>>

\* toBlob callback with null
CropToBlobNull ==
    /\ cropPc = "encoding"
    /\ cropPc' = "rejected"
    /\ cropError' = MsgCrop
    /\ UNCHANGED <<cropArgs, cropImg, cropRect, cropCanvas>>
    /\ UNCHANGED <<icoVars, stitchVars, appVars>>

InitCrop ==
    /\ IcoIdle
    /\ StitchIdle
    /\ AppMounted
    /\ CropInit

NextCrop ==
    \/ CropImgLoad
    \/ CropImgError
    \/ CropToBlobData
    \/ CropToBlobNull

SpecCrop == InitCrop /\ [][NextCrop]_vars

\* --------------------------------------------- reading a built container
\* Byte at offset off of a buffer, -1 outside it.
getUint8(buf, off) == IF off + 1 \in DOMAIN buf THEN buf[off + 1] ELSE -1

\* Little-endian reads, -1 when the field does not lie inside the buffer.
getUint16(buf, off) ==
    IF off + 1 \in DOMAIN buf /\ off + 2 \in DOMAIN buf
    THEN buf[off + 1] + 256 * buf[off + 2]
    ELSE -1

getUint32(buf, off) ==
    IF off + 1 \in DOMAIN buf /\ off + 4 \in DOMAIN buf
    THEN buf[off + 1] + 256 * buf[off + 2] + 65536 * buf[off + 3] + 16777216 * buf[off + 4]
    ELSE -1

\* The bytes of buf in [off, off + n).
Slice(buf, off, n) ==
    IF n >= 0 /\ off >= 0 /\ off + n <= Len(buf)
    THEN [k \in 1..n |-> buf[off + k]]
    ELSE <<-1>>

RECURSIVE SumLen(_)
SumLen(recs) == IF recs = <<>> THEN 0 ELSE Len(Head(recs).data) + SumLen(Tail(recs))

Built == pc = "resolved"
Buf == result.bytes
N == Len(sizes)
\* Fields of directory entry i (1-based), read back from the output buffer.
EntryAt(i) == 6 + 16 * (i - 1)
EntryWidth(i) == getUint8(Buf, EntryAt(i))
EntryHeight(i) == getUint8(Buf, EntryAt(i) + 1)
EntrySize(i) == getUint32(Buf, EntryAt(i) + 8)
EntryOffset(i) == getUint32(Buf, EntryAt(i) + 12)
HeaderCount == getUint16(Buf, 4)

\* ----------------------------------------------------------------- claims

\* C1: in a built container every entry's offset + size is within the buffer,
\* the first entry's offset is 6 + 16*N, each next entry starts where the
\* previous one ends, and the last one ends at the end of the buffer: the
\* payload ranges partition the region after the directory.
C1_PayloadsPartition ==
    Built =>
        /\ \A i \in 1..N :
              /\ EntrySize(i) >= 0
              /\ EntryOffset(i) + EntrySize(i) <= Len(Buf)
        /\ N >= 1 => EntryOffset(1) = 6 + 16 * N
        /\ \A i \in 1..(N - 1) : EntryOffset(i + 1) = EntryOffset(i) + EntrySize(i)
        /\ N >= 1 => EntryOffset(N) + EntrySize(N) = Len(Buf)

C1_Witness ==
    /\ Built
    /\ N = 3
    /\ EntrySize(1) = 2
    /\ EntrySize(2) = 1
    /\ EntryOffset(3) = 6 + 48 + 3

\* C2: for a non-empty size list the header count (u16 at offset 4) is |S|,
\* the directory holds |S| entries (it ends where the first payload starts)
\* and |S| payloads were encoded and stored.
C2_CountEqualsSizes ==
    (Built /\ N >= 1) =>
        /\ HeaderCount = N
        /\ EntryOffset(1) - 6 = 16 * N
        /\ Len(pngBlobs) = N
        /\ Len(encoded) = N

C2_Witness == Built /\ N = 3 /\ HeaderCount = 3

\* C3: the buffer is exactly 6 + 16*N + (sum of the encoded payload lengths)
\* bytes long and the blob is typed image/x-icon; for sizes [32, 64] that is
\* 6 + 32 + both payload lengths, with a count field of 2.
C3_BufferLength ==
    Built =>
        /\ Len(Buf) = 6 + 16 * N + SumLen(encoded)
        /\ result.type = "image/x-icon"
        /\ sizes = <<32, 64>> =>
              /\ Len(Buf) = 6 + 32 + Len(encoded[1].data) + Len(encoded[2].data)
              /\ HeaderCount = 2

C3_Witness ==
    /\ Built
    /\ sizes = <<32, 64>>
    /\ Len(encoded) = 2
    /\ Len(encoded[1].data) # Len(encoded[2].data)

\* C4: the width and height bytes of entry i are both 0 when the i-th size is
\* at least 256 and both equal to the size when it is below 256.
C4_DimensionBytes ==
    Built =>
        \A i \in 1..N :
            /\ sizes[i] >= 256 => (EntryWidth(i) = 0 /\ EntryHeight(i) = 0)
            /\ sizes[i] < 256 => (EntryWidth(i) = sizes[i] /\ EntryHeight(i) = sizes[i])

C4_Witness == Built /\ sizes = <<255, 256, 300>>

\* C5: entry i and payload i belong to the i-th supplied size, in the order
\* supplied: the canvases are rendered in list order, one per element
\* (duplicates included), and entry i carries the dimension bytes of the
\* i-th size and the length of the payload encoded for it.
C5_RequestOrder ==
    Built =>
        /\ rendered = sizes
        /\ Len(encoded) = N
        /\ HeaderCount = N % 65536
        /\ \A i \in 1..N :
              /\ encoded[i].size = sizes[i]
              /\ EntryWidth(i) = (IF sizes[i] >= 256 THEN 0 ELSE sizes[i])
              /\ EntrySize(i) = Len(encoded[i].data)

C5_Witness ==
    /\ Built
    /\ N = 3
    /\ sizes[1] = sizes[2]
    /\ sizes[3] # sizes[1]
    /\ encoded[1].data # encoded[2].data

\* C6: the bytes of the buffer in [entry.offset, entry.offset + entry.size)
\* are exactly the bytes the encoder returned for the canvas of the i-th
\* requested size.
C6_PayloadBytes ==
    Built =>
        /\ Len(encoded) = N
        /\ \A i \in 1..N :
              /\ encoded[i].size = sizes[i]
              /\ Slice(Buf, EntryOffset(i), EntrySize(i)) = encoded[i].data

C6_Witness ==
    /\ Built
    /\ N = 3
    /\ sizes = <<300, 32, 32>>
    /\ encoded[1].data = <<45, 46>>
    /\ encoded[2].data = <<33>>
    /\ encoded[3].data = <<33, 34>>

\* C7: the fixed fields: reserved u16 = 0 at 0, type u16 = 1 at 2, and in
\* every entry colorCount = 0, reserved = 0, planes u16 = 1, bpp u16 = 32,
\* the payload length as u32 at +8 and its offset as u32 at +12, each
\* multi-byte field with its low byte first.
C7_FixedFields ==
    Built =>
        /\ getUint8(Buf, 0) = 0 /\ getUint8(Buf, 1) = 0
        /\ getUint8(Buf, 2) = 1 /\ getUint8(Buf, 3) = 0
        /\ getUint8(Buf, 4) = N % 256 /\ getUint8(Buf, 5) = (N \div 256) % 256
        /\ \A i \in 1..N :
              LET e == EntryAt(i)
                  len == Len(encoded[i].data)
                  off == 6 + 16 * N + SumLen(SubSeq(encoded, 1, i - 1))
              IN  /\ getUint8(Buf, e + 2) = 0
                  /\ getUint8(Buf, e + 3) = 0
                  /\ getUint8(Buf, e + 4) = 1 /\ getUint8(Buf, e + 5) = 0
                  /\ getUint8(Buf, e + 6) = 32 /\ getUint8(Buf, e + 7) = 0
                  /\ getUint8(Buf, e + 8) = len % 256
                  /\ getUint8(Buf, e + 9) = (len \div 256) % 256
                  /\ getUint8(Buf, e + 10) = (len \div 65536) % 256
                  /\ getUint8(Buf, e + 11) = (len \div 16777216) % 256
                  /\ getUint8(Buf, e + 12) = off % 256
                  /\ getUint8(Buf, e + 13) = (off \div 256) % 256
                  /\ getUint8(Buf, e + 14) = (off \div 65536) % 256
                  /\ getUint8(Buf, e + 15) = (off \div 16777216) % 256

C7_Witness == Built /\ N = 3 /\ getUint8(Buf, EntryAt(3) + 6) = 32

\* C8: a build with an empty size list is rejected: it never resolves with a
\* container.
C8_EmptyListRejected == (sizes = <<>>) => ~Built

\* C9: the build is atomic: an encode that yields no data rejects the build
\* and no later size is rendered; a container is resolved only with every
\* requested size in it; resolve / reject is called at most once, so the
\* build never both resolves and rejects.
C9_Atomic ==
    /\ settleCalls <= 1
    /\ failedAt # 0 =>
          /\ pc = "rejected"
          /\ error = "Failed to generate PNG"
          /\ result = NoBlob
          /\ Len(rendered) = failedAt
          /\ Len(encoded) = failedAt - 1
    /\ result # NoBlob =>
          /\ pc = "resolved"
          /\ error = ""
          /\ failedAt = 0
          /\ HeaderCount = N
          /\ Len(Buf) = 6 + 16 * N + SumLen(encoded)
          /\ Len(encoded) = N
    /\ pc = "rejected" => (result = NoBlob /\ settleCalls = 1)
    /\ pc = "resolved" => (result # NoBlob /\ settleCalls = 1)

C9_Witness ==
    /\ N = 3
    /\ failedAt = 3
    /\ pc = "rejected"
    /\ Len(pngBlobs) = 2

\* C10: when the image error event fires the build rejects with 'Failed to
\* load image', no canvas is rendered, no encode is started and no buffer is
\* produced.
C10_LoadFailure ==
    imgEvent = "error" =>
        /\ pc = "rejected"
        /\ error = "Failed to load image"
        /\ rendered = <<>>
        /\ encoded = <<>>
        /\ pngBlobs = <<>>
        /\ result = NoBlob
        /\ settleCalls = 1

C10_Witness == imgEvent = "error" /\ N = 3 /\ pc = "rejected"

\* Number of toBlob callbacks that have fired so far.
CallbacksFired == Len(encoded) + (IF failedAt # 0 THEN 1 ELSE 0)
Settled == pc \in {"resolved", "rejected"}

\* C11: the per-size renders run one after another in list order: a canvas
\* is rendered only when every earlier encode callback has fired, at most
\* one encode is outstanding, each size is encoded once, and the container
\* is built only after the last encode has completed.
C11_Sequential ==
    /\ Len(rendered) <= N
    /\ rendered = SubSeq(sizes, 1, Len(rendered))
    /\ Len(rendered) - CallbacksFired \in {0, 1}
    /\ (Len(rendered) - CallbacksFired = 1) <=> (pc = "encoding")
    /\ Len(encoded) <= N
    /\ \A i \in 1..Len(encoded) : encoded[i].size = sizes[i]
    /\ result # NoBlob =>
          /\ Len(rendered) = N
          /\ Len(encoded) = N
          /\ Len(pngBlobs) = N
          /\ pc = "resolved"

C11_Witness ==
    /\ N = 3
    /\ pc = "encoding"
    /\ Len(rendered) = 3
    /\ Len(encoded) = 2

\* C12: no timeout: when every awaited event and callback fires the promise
\* eventually settles; while an encode callback is outstanding the promise
\* is unsettled, and the only step the build can take is that callback, so
\* without it nothing settles and no later size is rendered.
C12_NoTimeout ==
    /\ <>Settled
    /\ [](pc = "encoding" => (settleCalls = 0 /\ result = NoBlob /\ error = ""))
    /\ [][pc = "encoding" =>
            /\ CallbacksFired' = CallbacksFired + 1
            /\ rendered' = rendered
            /\ (pc' = "rejected" \/ (pc' = "reading" /\ settleCalls' = 0))]_vars

C12_Witness ==
    /\ N = 3
    /\ pc = "encoding"
    /\ idx = 2
    /\ settleCalls = 0

\* ------------------------------------------------ App claims
StrictlyAscending(q) == \A k \in 1..(Len(q) - 1) : q[k] < q[k + 1]

\* convertSingleFile(id) as a run would execute it had it closed over the
\* ICO tool and an empty selection.
EmptySelectionRun(id) ==
    RunLoop(files,
            [NoRun EXCEPT !.active = TRUE, !.tool = "ico", !.files = <<id>>,
                          !.sizes = <<>>],
            <<id>>, lastIcoCall, {})

\* The step in which the operation awaited by convertSingleFile rejects.
OpRejectStep ==
    /\ run.pc = "awaitOp"
    /\ run' # run
    /\ lastEvent'.kind = "rejected"

\* The step in which handleConvertAll reaches setIsProcessingAll(false).
RunFinishStep == isProcessingAll /\ ~isProcessingAll'

\* C13: every size list that reaches generateIco from the IcoOptions
\* controls holds only sizes of at most 256 pixels.
C13_SizesAtMost256 ==
    lastIcoCall.called =>
        \A k \in 1..Len(lastIcoCall.sizes) : lastIcoCall.sizes[k] <= 256

\* C14: generateIco is never called with an empty size list, also when the
\* selection is cleared during a run; with the ICO tool and an empty
\* selection the convert-all click is disabled; and a conversion attempted
\* with an empty selection makes no call and fails with the select-a-size
\* message.
C14_NeverEmptySizes ==
    /\ lastIcoCall.called => lastIcoCall.sizes # <<>>
    /\ (activeTool = "ico" /\ icoSizes = <<>>) => ~ENABLED ConvertAllClick
    /\ StartOperation("ico", <<>>) = [thrown |-> TRUE, msg |-> MsgSelectSize]
    /\ \A k \in 1..Len(files) :
          LET out == EmptySelectionRun(files[k].id)
          IN  /\ out.calls = lastIcoCall
              /\ out.files[k].status = "ERROR"
              /\ out.files[k].errorMessage = MsgSelectSize

\* A call made while the selection on screen is empty: it was cleared after
\* the click, and the run still passes the sizes of the click.
C14_Witness ==
    /\ activeTool = "ico"
    /\ icoSizes = <<>>
    /\ run.pc = "awaitOp"
    /\ lastIcoCall.called
    /\ lastIcoCall.file = run.cur
    /\ lastIcoCall.selectedLength = 0
    /\ lastIcoCall.sizes = <<32, 64, 128, 256>>

\* C15: from the initial selection, after any toggles, select-all and clear,
\* the selected list is strictly ascending (so free of duplicates) and holds
\* only sizes of ICO_SIZES.
C15_SelectionAscending ==
    /\ StrictlyAscending(icoSizes)
    /\ SeqToSet(icoSizes) \subseteq SeqToSet(ICO_SIZES)

C15_Witness == activeTool = "ico" /\ icoSizes = <<24, 48, 512>>

\* C16: when the operation of a file rejects, the entry of that file gets
\* status ERROR and the message of the error, its converted result is left
\* as it was, and no other entry is changed by the failure (the one other
\* change of the step is the next file of the run being set to PROCESSING by
\* its own convertSingleFile call); the same holds for the throw on an empty
\* selection.
C16_FailureSurfaced ==
    /\ [][OpRejectStep =>
            /\ Len(files') = Len(files)
            /\ \A k \in 1..Len(files) :
                  IF files[k].id = run.cur
                  THEN files'[k] = [files[k] EXCEPT !.status = "ERROR",
                                                    !.errorMessage = lastEvent'.msg]
                  ELSE \/ files'[k] = files[k]
                       \/ /\ run'.pc = "awaitOp"
                          /\ run'.cur = files[k].id
                          /\ files'[k] = [files[k] EXCEPT !.status = "PROCESSING"]]_vars
    /\ [](\A k \in 1..Len(files) :
            LET out == EmptySelectionRun(files[k].id)
            IN  /\ Len(out.files) = Len(files)
                /\ \A j \in 1..Len(files) :
                      out.files[j] = IF j = k
                                     THEN [files[k] EXCEPT !.status = "ERROR",
                                                           !.errorMessage = MsgSelectSize]
                                     ELSE files[j])

\* The first file failed to encode while a file added during the run sits
\* untouched behind it.
C16_Witness ==
    /\ Len(files) = 2
    /\ lastEvent = [kind |-> "rejected", id |-> files[1].id, msg |-> MsgPng,
                    tool |-> activeTool]
    /\ files[1].status = "ERROR"
    /\ files[1].errorMessage = MsgPng
    /\ files[1].converted = NoOutput
    /\ files[2] = NewFile(files[2].id)
    /\ ~isProcessingAll

\* ------------------------------------------------ stitchImages claims
StN == Len(stFiles)
AllLoaded == StN >= 1 /\ \A k \in 1..StN : stLoad[k] = "loaded"
FailedFiles == {k \in 1..StN : stLoad[k] = "failed"}
\* The file whose error callback fired first.
FirstFailed ==
    LET at == {i \in 1..Len(loadOrder) : loadOrder[i] \in FailedFiles}
    IN  loadOrder[CHOOSE i \in at : \A j \in at : i <= j]

RECURSIVE SumOver(_, _, _)
\* Sum of dim(stFiles[j]) + extra for j in 1..n.
SumOver(n, dim, extra) ==
    IF n = 0 THEN 0
    ELSE SumOver(n - 1, dim, extra) + extra
         + (IF dim = "w" THEN stFiles[n].w ELSE stFiles[n].h)
MaxOver(dim) ==
    LET vals == {IF dim = "w" THEN stFiles[k].w ELSE stFiles[k].h : k \in 1..StN}
    IN  CHOOSE v \in vals : \A u \in vals : u <= v

\* C17: the compositing step runs at most once, and it has run exactly when
\* all N load callbacks have fired; whatever order the loads completed in,
\* image k of the composite is the decode of file k.
C17_JoinThenComposite ==
    /\ allLoadedRuns <= 1
    /\ Len(composites) <= allLoadedRuns
    /\ (allLoadedRuns = 1) <=> AllLoaded
    /\ loadedCount = Cardinality({k \in 1..StN : stLoad[k] = "loaded"})
    /\ \A c \in 1..Len(composites) :
          /\ Len(composites[c].draws) = StN
          /\ \A k \in 1..StN : composites[c].draws[k].file = k

C17_Witness ==
    /\ Len(composites) = 1
    /\ loadOrder = <<3, 1, 2>>
    /\ stFiles[1] # stFiles[3]

\* C18 as stated: whenever the load of a file has failed, the promise is
\* rejected with the error naming that file and compositing has not run.
C18_NamesEveryFailedFile ==
    \A k \in 1..StN :
        stLoad[k] = "failed" =>
            /\ stPromise = "rejected"
            /\ stError = [msg |-> "Failed to load image: ", file |-> k]
            /\ allLoadedRuns = 0

\* C18 amended: once the load of some file has failed the promise is
\* rejected with the error naming the file whose load failed first, and
\* compositing never runs, whatever the other images' callbacks do; the
\* promise resolves only with a composite of all N inputs.
C18_NamesFirstFailedFile ==
    /\ FailedFiles # {} =>
          /\ stPromise = "rejected"
          /\ stError = [msg |-> "Failed to load image: ", file |-> FirstFailed]
          /\ allLoadedRuns = 0
          /\ composites = <<>>
    /\ stPromise = "resolved" =>
          /\ AllLoaded
          /\ Len(composites) = 1
          /\ Len(composites[1].draws) = StN

C18_Witness ==
    /\ StN = 3
    /\ loadOrder = <<2, 1, 3>>
    /\ stLoad = <<"loaded", "failed", "loaded">>

\* C19: vertical stitching of N >= 1 images with gap g: the canvas is as
\* wide as the widest image and as high as the heights plus g*(N-1); image
\* k is drawn at the sum over j < k of (height_j + g), so consecutive images
\* are exactly g apart and the last one ends at the canvas height; the same
\* with widths and heights swapped for horizontal stitching.
C19_StitchLayout ==
    \A c \in 1..Len(composites) :
        LET cv == composites[c]
            g == stOptions.gap
        IN  /\ cv.mode = "vertical" =>
                  /\ cv.width = MaxOver("w")
                  /\ cv.height = SumOver(StN, "h", 0) + g * (StN - 1)
                  /\ \A k \in 1..StN : cv.draws[k].y2 = 2 * SumOver(k - 1, "h", g)
                  /\ \A k \in 1..(StN - 1) :
                        cv.draws[k + 1].y2 = cv.draws[k].y2 + 2 * (stFiles[k].h + g)
                  /\ cv.draws[StN].y2 + 2 * stFiles[StN].h = 2 * cv.height
            /\ cv.mode = "horizontal" =>
                  /\ cv.height = MaxOver("h")
                  /\ cv.width = SumOver(StN, "w", 0) + g * (StN - 1)
                  /\ \A k \in 1..StN : cv.draws[k].x2 = 2 * SumOver(k - 1, "w", g)
                  /\ \A k \in 1..(StN - 1) :
                        cv.draws[k + 1].x2 = cv.draws[k].x2 + 2 * (stFiles[k].w + g)
                  /\ cv.draws[StN].x2 + 2 * stFiles[StN].w = 2 * cv.width

C19_Witness ==
    /\ Len(composites) = 1
    /\ stOptions.mode = "vertical"
    /\ stOptions.gap = 2
    /\ stFiles = <<[w |-> 1, h |-> 2], [w |-> 3, h |-> 3], [w |-> 2, h |-> 1]>>
    /\ composites[1].height = 10

\* C20 as stated: when a run finishes, every listed file the run had set to
\* PROCESSING is COMPLETED or ERROR.
C20_EndsCompletedOrError ==
    [][RunFinishStep =>
          \A k \in 1..Len(files') :
              files'[k].id \in runMarked' => files'[k].status \in {"COMPLETED", "ERROR"}]_vars

\* C20 amended: once a run has finished, no listed file the run had set to
\* PROCESSING is PROCESSING; at the finish each is COMPLETED or ERROR, unless
\* the run was one of the crop, rotate or brightness tool, whose option
\* handlers put finished files back to IDLE.
C20_NoneLeftProcessing ==
    /\ [](~isProcessingAll =>
            \A k \in 1..Len(files) :
                files[k].id \in runMarked => files[k].status # "PROCESSING")
    /\ [][RunFinishStep =>
            \A k \in 1..Len(files') :
                files'[k].id \in runMarked' =>
                    \/ files'[k].status \in {"COMPLETED", "ERROR"}
                    \/ run.tool \in ResetTools /\ files'[k].status = "IDLE"]_vars

\* A finished run of two files: the first was put back to IDLE by an option
\* change, the second failed.
C20_Witness ==
    /\ ~isProcessingAll
    /\ activeTool = "rotate"
    /\ Len(files) = 2
    /\ runMarked = {files[1].id, files[2].id}
    /\ files[1].status = "IDLE"
    /\ files[1].converted.tool = "rotate"
    /\ files[2].status = "ERROR"
    /\ lastEvent.id = files[2].id

\* ------------------------------------------------ convert-all run claims
Processing(fs) == {k \in 1..Len(fs) : fs[k].status = "PROCESSING"}

\* Ids of the list in list order.
IdsOf(fs) == [k \in 1..Len(fs) |-> fs[k].id]

\* Position of x in q (0 when absent).
Pos(q, x) ==
    IF \E i \in 1..Len(q) : q[i] = x
    THEN CHOOSE i \in 1..Len(q) : q[i] = x
    ELSE 0

\* Files that a step sets to PROCESSING.
Started == {k \in 1..Len(files) :
               /\ k <= Len(files')
               /\ files'[k].id = files[k].id
               /\ files[k].status # "PROCESSING"
               /\ files'[k].status = "PROCESSING"}

\* The click that starts a run of a per-file tool.
PerFileClickStep == ~isProcessingAll /\ run'.pc = "awaitOp"

\* The step of a per-file run that goes on to the next file.
NextFileStep == run.pc = "awaitOp" /\ run'.pc = "awaitOp" /\ run'.cur # run.cur

\* The step in which an awaited operation of a run settles.
SettleStep == run.active /\ run' # run

\* C21: a run of a per-file tool takes the files that are IDLE at the click,
\* one at a time in list order: under a per-file tool, and whenever no stitch
\* run is in progress, at most one file is PROCESSING; a file is only ever set to PROCESSING from IDLE, so COMPLETED
\* and ERROR files are not converted again; the run goes on to the next file
\* only in the step that leaves the previous one COMPLETED or ERROR, and the
\* next file stands later in the list of the click.
C21_OneAtATime ==
    /\ []((run.pc # "awaitStitch" \/ activeTool # "long-image") =>
              Cardinality(Processing(files)) <= 1)
    /\ [][PerFileClickStep =>
            /\ run'.files = IdsOf(files)
            /\ <<run'.cur>> \o run'.queue
                   = IdsOf(SelectSeq(files, LAMBDA f : f.status = "IDLE"))]_vars
    /\ [][(run'.pc = "awaitOp") =>
            \A k \in Started : files[k].status = "IDLE" /\ files[k].id = run'.cur]_vars
    /\ [][NextFileStep =>
            /\ run'.cur = Head(run.queue)
            /\ Pos(run.files, run'.cur) > Pos(run.files, run.cur)
            /\ \A k \in 1..Len(files) :
                  files[k].id = run.cur =>
                      files'[k].status \in {"COMPLETED", "ERROR"}]_vars

\* The first file is done and the run is converting the second.
C21_Witness ==
    /\ run.pc = "awaitOp"
    /\ Len(files) = 2
    /\ files[1].status = "COMPLETED"
    /\ files[2].status = "PROCESSING"
    /\ run.cur = files[2].id
    /\ lastEvent.kind = "resolved"
    /\ lastEvent.id = files[1].id

\* C22: a change of the active tool leaves the file list empty, and an
\* operation that settles afterwards changes neither the length of the list
\* nor the ids in it: it adds no file and creates no entry.
C22_ClearedOnToolChange ==
    /\ [][activeTool' # activeTool => files' = <<>>]_vars
    /\ [][SettleStep => IdsOf(files') = IdsOf(files)]_vars

\* A conversion started under the convert tool resolved while the ICO tool
\* was active, and the list is empty.
C22_Witness ==
    /\ activeTool = "ico"
    /\ files = <<>>
    /\ ~lastIcoCall.called
    /\ lastEvent.kind = "resolved"
    /\ lastEvent.tool = "ico"
    /\ lastEvent.id = 1
    /\ ~isProcessingAll

\* ------------------------------------------------ option change claims
\* A step of one of the option handlers of the crop, rotate or brightness tool.
ParamChangeStep ==
    /\ activeTool \in ResetTools
    /\ activeTool' = activeTool
    /\ run' = run
    /\ nextId' = nextId
    /\ Len(files') = Len(files)
    /\ (rotateAngle' # rotateAngle \/ files' # files)

\* C23: a parameter change under the crop, rotate or brightness tool turns
\* every COMPLETED file IDLE and leaves every other entry, the order and
\* the membership of the list as they are.
C23_ResetOnChange ==
    [][ParamChangeStep =>
          /\ Len(files') = Len(files)
          /\ \A k \in 1..Len(files) :
                files'[k] = IF files[k].status = "COMPLETED"
                            THEN [files[k] EXCEPT !.status = "IDLE"]
                            ELSE files[k]]_vars

\* The angle was changed with a finished, a failed and no other file listed:
\* the finished one is IDLE with its output kept, the failed one is as it was.
C23_Witness ==
    /\ activeTool = "rotate"
    /\ rotateAngle = 90
    /\ Len(files) = 2
    /\ files[1].status = "IDLE"
    /\ files[1].converted = Output("rotate", 0)
    /\ files[2].status = "ERROR"
    /\ run = NoRun

\* C24: a file that is COMPLETED under the rotate tool with an output of
\* rotateImage carries an output made with the angle that is selected now.
C24_OutputMatchesParams ==
    activeTool = "rotate" =>
        \A k \in 1..Len(files) :
            (files[k].status = "COMPLETED" /\ files[k].converted.tool = "rotate") =>
                files[k].converted.angle = rotateAngle

\* ------------------------------------------------ long-image run claims
\* The step in which the stitchImages call of a run settles.
StitchSettleStep == run.pc = "awaitStitch" /\ run' # run

\* C25: when the stitch of a long-image run resolves, every file of the list
\* is COMPLETED, the first carries the stitched result and every other file
\* carries none; when it rejects, every file is ERROR with the message of
\* the error; so one run never leaves COMPLETED and ERROR files side by side.
C25_SingleOutput ==
    [][StitchSettleStep =>
          /\ IdsOf(files') = IdsOf(files)
          /\ lastEvent'.kind = "resolved" =>
                \A k \in 1..Len(files') :
                    /\ files'[k].status = "COMPLETED"
                    /\ files'[k].converted =
                           IF k = 1 THEN Output("long-image", 0) ELSE NoOutput
          /\ lastEvent'.kind = "rejected" =>
                \A k \in 1..Len(files') :
                    /\ files'[k].status = "ERROR"
                    /\ files'[k].errorMessage = lastEvent'.msg
                    /\ files'[k].converted = files[k].converted
          /\ ~\E j, k \in 1..Len(files') :
                files'[j].status = "COMPLETED" /\ files'[k].status = "ERROR"]_vars

\* Two files, put in the other order during the run, after the stitch resolved.
C25_Witness ==
    /\ activeTool = "long-image"
    /\ lastEvent = [kind |-> "resolved", id |-> 0, msg |-> "", tool |-> "long-image"]
    /\ IdsOf(files) = <<2, 1>>
    /\ files[1].status = "COMPLETED"
    /\ files[1].converted = Output("long-image", 0)
    /\ files[2].status = "COMPLETED"
    /\ files[2].converted = NoOutput
    /\ ~isProcessingAll

\* ------------------------------------------------ cropImage claims
\* C26: once the image has loaded, the call has rejected with 'Invalid crop
\* dimensions', or (the canvas context missing) has drawn nothing, or the
\* source rectangle it drew starts at non-negative coordinates, has a
\* positive width and height, lies within the image, and the canvas has
\* exactly its width and height.
C26_CropWithinImage ==
    (cropPc \in {"encoding", "resolved", "rejected"} /\ cropError # MsgLoad) =>
        \/ cropError = MsgInvalidCrop /\ ~cropRect.drawn
        \/ cropError = MsgCtx /\ ~cropRect.drawn
        \/ /\ cropRect.drawn
           /\ cropRect.sx >= 0
           /\ cropRect.sy >= 0
           /\ cropRect.sw > 0
           /\ cropRect.sh > 0
           /\ cropRect.sx + cropRect.sw <= cropImg.width
           /\ cropRect.sy + cropRect.sh <= cropImg.height
           /\ cropCanvas = [width |-> cropRect.sw, height |-> cropRect.sh]

\* A crop that starts left of and above the image and reaches beyond it.
C26_Witness ==
    /\ cropArgs = [x |-> -2, y |-> -1, width |-> 3, height |-> 3]
    /\ cropImg = [width |-> 2, height |-> 3]
    /\ cropPc = "resolved"
    /\ cropRect = [drawn |-> TRUE, sx |-> 0, sy |-> 0, sw |-> 2, sh |-> 3]

====
